---- MODULE Spec2Model ----
(***************************************************************************)
(* A model of chrombpnet/dataset.py: the DataModule (chromosome split,     *)
(* per-stage datasets, dataloader entry points), the ChromBPNetDataset     *)
(* (crop_revcomp_data, __len__, __getitem__) and subsample_nonpeak_data.   *)
(*                                                                         *)
(* Arrays are sequences of rows.  A row stands for one example's entry in  *)
(* one of the three parallel arrays (sequence, counts, coordinates); it    *)
(* carries the identity of the region it was extracted from, the jitter    *)
(* margin still available around it, the crop offset applied so far and    *)
(* its orientation.  Python's None is the array NoneArr.                   *)
(***************************************************************************)
EXTENDS Integers, Sequences, FiniteSets, TLC

\* ------------------------------------------------------------------ bounds
MaxPeaks == 1
MaxNonpeaks == 2
MaxRefreshes == 2
MaxEpochs == 2
NumWorkers == 2
MaxCalls == 3

\* ------------------------------------------------------------- state
VARIABLES
    config,          \* DataModule.config (the fields this module reads)
    dm,              \* DataModule: status, data, *_chroms, *_data, loaders
    train_dataset,   \* DataModule.train_dataset
    val_dataset,     \* DataModule.val_dataset
    test_dataset,    \* DataModule.test_dataset
    trainer,         \* the training loop driving the DataModule
    got,             \* the most recent __getitem__ call of a loader worker
    ds_args,         \* arguments of a directly constructed ChromBPNetDataset
    ds,              \* that dataset
    ds_got,          \* the most recent __getitem__ call on it
    ss_in,           \* arguments of a subsample_nonpeak_data call
    ss_out,          \* its result
    loggers,         \* the logging module's loggers by name: level and handlers
    log_call         \* the most recent create_logger call

vars == <<config, dm, train_dataset, val_dataset, test_dataset, trainer, got,
          ds_args, ds, ds_got, ss_in, ss_out, loggers, log_call>>

\* ------------------------------------------------------------- helpers
Min(a, b) == IF a <= b THEN a ELSE b

Range(s) == {s[i] : i \in DOMAIN s}

\* injective sequences of length k over 1..n: the outcomes of drawing k of n
\* indices without replacement, in the order drawn
InjSeqs(n, k) == {s \in [1..k -> 1..n] : \A i, j \in 1..k : i # j => s[i] # s[j]}

\* ------------------------------------------------------------- rows, arrays
Parts == {"seq", "cts", "coord"}

Row(part, peak, id, margin) ==
    [part |-> part, peak |-> peak, id |-> id, margin |-> margin, off |-> 0, rc |-> FALSE]

NoneArr == [isNone |-> TRUE, rows |-> <<>>]

Arr(rows) == [isNone |-> FALSE, rows |-> rows]

NoneRegions == [isNone |-> TRUE, rows |-> <<>>]

Regions(rows) == [isNone |-> FALSE, rows |-> rows]

\* the jitter margin of an array: seqs.shape[1] - inputlen
ArrMargin(rows) == IF Len(rows) = 0 THEN 0 ELSE rows[1].margin

\* negative_sampling_ratio as a rational num/den, den > 0
Ratio(num, den) == [num |-> num, den |-> den]

Ratios == {Ratio(0 - 1, 1), Ratio(0, 1), Ratio(1, 2), Ratio(3, 2), Ratio(2, 1), Ratio(3, 1)}

\* a mutant of RatioPositive: the test is >= 0
RatioNonNegative(r) == r.num >= 0

\* self.negative_sampling_ratio > 0
RatioPositive(r) == r.num > 0

\* int(negative_sampling_ratio * peak_data_size): truncation toward zero
NumNonpeakSamples(ratio, peak_data_size) ==
    IF ratio.num * peak_data_size >= 0
    THEN (ratio.num * peak_data_size) \div ratio.den
    ELSE 0 - ((0 - ratio.num * peak_data_size) \div ratio.den)

\* np.random.choice(n, size=size, replace=False): every ordered draw of
\* `size` distinct indices; a negative size is rejected
ChoiceNoReplace(n, size) == IF size < 0 THEN {} ELSE InjSeqs(n, size)

\* arr[indices]: numpy integer-array indexing
TakeRows(rows, indices) == [i \in 1..Len(indices) |-> rows[indices[i]]]

\* a mutant of subsample_nonpeak_data: the count profiles are taken by
\* position, not by the drawn indices
subsample_nonpeak_data_cts_by_position(nonpeak_seqs, nonpeak_cts, nonpeak_coords, peak_data_size, negative_sampling_ratio) ==
    LET num_nonpeak_samples == NumNonpeakSamples(negative_sampling_ratio, peak_data_size)
        size == Min(num_nonpeak_samples, Len(nonpeak_seqs))
    IN  IF size < 0
        THEN {[err |-> "ValueError", keep |-> <<>>, seqs |-> <<>>, cts |-> <<>>,
               coords |-> <<>>]}
        ELSE {[err |-> "", keep |-> k,
               seqs |-> TakeRows(nonpeak_seqs, k),
               cts |-> SubSeq(nonpeak_cts, 1, size),
               coords |-> TakeRows(nonpeak_coords, k)]
                 : k \in ChoiceNoReplace(Len(nonpeak_seqs), size)}

\* subsample_nonpeak_data: the set of its possible results
subsample_nonpeak_data(nonpeak_seqs, nonpeak_cts, nonpeak_coords, peak_data_size, negative_sampling_ratio) ==
    LET num_nonpeak_samples == NumNonpeakSamples(negative_sampling_ratio, peak_data_size)
        size == Min(num_nonpeak_samples, Len(nonpeak_seqs))
    IN  IF size < 0
        THEN {[err |-> "ValueError", keep |-> <<>>, seqs |-> <<>>, cts |-> <<>>,
               coords |-> <<>>]}
        ELSE {[err |-> "", keep |-> nonpeak_indices_to_keep,
               seqs |-> TakeRows(nonpeak_seqs, nonpeak_indices_to_keep),
               cts |-> TakeRows(nonpeak_cts, nonpeak_indices_to_keep),
               coords |-> TakeRows(nonpeak_coords, nonpeak_indices_to_keep)]
                 : nonpeak_indices_to_keep \in ChoiceNoReplace(Len(nonpeak_seqs), size)}

\* ------------------------------------------------------------- data_utils
\* crop one row at start offset o: the offset adds to the window start and
\* the row is at target length afterwards
CropRow(r, o) == [r EXCEPT !.off = @ + o, !.margin = 0]

\* data_utils.random_crop: one start offset per example, uniform over the
\* jitter margin, the same offset for the sequence, counts and coordinates
random_crop(seqs, cts, coords) ==
    LET n == Len(seqs)
        m == ArrMargin(seqs)
    IN  {[seqs |-> [i \in 1..n |-> CropRow(seqs[i], starts[i])],
          cts |-> [i \in 1..n |-> CropRow(cts[i], starts[i])],
          coords |-> [i \in 1..n |-> CropRow(coords[i], starts[i])]]
            : starts \in [1..n -> 0..m]}

\* reverse complement of one row: the orientation flips
RevcompRow(r) == [r EXCEPT !.rc = ~@]

\* the rows in forward orientation followed by their reverse complements
RevcompRows(rows) == rows \o [i \in 1..Len(rows) |-> RevcompRow(rows[i])]

\* data_utils.crop_revcomp_augment: crop to the target length, then the
\* reverse complement duplication when enabled, then the optional shuffle
crop_revcomp_augment(seqs, cts, coords, add_revcomp, shuffle) ==
    LET cropped == random_crop(seqs, cts, coords)
        augmented ==
            IF add_revcomp
            THEN {[seqs |-> RevcompRows(c.seqs), cts |-> RevcompRows(c.cts),
                   coords |-> RevcompRows(c.coords)] : c \in cropped}
            ELSE cropped
    IN  IF shuffle
        THEN UNION {{[seqs |-> TakeRows(a.seqs, p), cts |-> TakeRows(a.cts, p),
                      coords |-> TakeRows(a.coords, p)]
                        : p \in InjSeqs(Len(a.seqs), Len(a.seqs))} : a \in augmented}
        ELSE augmented

\* data_utils.load_data: the six source arrays; an absent region set gives
\* None; peak windows are enlarged by max_jitter on each side
RowsOf(part, peak, regions, margin) ==
    IF regions.isNone
    THEN NoneArr
    ELSE Arr([i \in 1..Len(regions.rows) |-> Row(part, peak, regions.rows[i].id, margin)])

load_data(peak_regions, nonpeak_regions, max_jitter) ==
    [peak_seqs |-> RowsOf("seq", TRUE, peak_regions, 2 * max_jitter),
     peak_cts |-> RowsOf("cts", TRUE, peak_regions, 2 * max_jitter),
     peak_coords |-> RowsOf("coord", TRUE, peak_regions, 2 * max_jitter),
     nonpeak_seqs |-> RowsOf("seq", FALSE, nonpeak_regions, 0),
     nonpeak_cts |-> RowsOf("cts", FALSE, nonpeak_regions, 0),
     nonpeak_coords |-> RowsOf("coord", FALSE, nonpeak_regions, 0)]

\* ------------------------------------------------------------- ChromBPNetDataset
\* a dataset object; status "unset" before __init__ has run, "ok" after it
\* returned, "ValueError" when it raised.  refreshes and samplings count the
\* crop_revcomp_data and subsample_nonpeak_data calls made on the object.
NoDataset ==
    [status |-> "unset",
     peak_seqs |-> NoneArr, peak_cts |-> NoneArr, peak_coords |-> NoneArr,
     nonpeak_seqs |-> NoneArr, nonpeak_cts |-> NoneArr, nonpeak_coords |-> NoneArr,
     negative_sampling_ratio |-> Ratio(0, 1), add_revcomp |-> FALSE,
     shuffle_at_epoch_start |-> FALSE,
     sampled_nonpeak_seqs |-> NoneArr, sampled_nonpeak_cts |-> NoneArr,
     sampled_nonpeak_coords |-> NoneArr,
     seqs |-> NoneArr, cts |-> NoneArr, coords |-> NoneArr,
     cur_seqs |-> NoneArr, cur_cts |-> NoneArr, cur_coords |-> NoneArr,
     refreshes |-> 0, samplings |-> 0]

\* lines 422-424: the cropped peak arrays
CropPeaks(self) ==
    random_crop(self.peak_seqs.rows, self.peak_cts.rows, self.peak_coords.rows)

\* a mutant of StackNegatives: the drawn subset overwrites the source arrays
StackNegatives_overwrites_source(self, c) ==
    IF RatioPositive(self.negative_sampling_ratio)
    THEN {[self EXCEPT !.nonpeak_seqs = Arr(s.seqs), !.nonpeak_cts = Arr(s.cts),
                       !.nonpeak_coords = Arr(s.coords),
                       !.sampled_nonpeak_seqs = Arr(s.seqs),
                       !.sampled_nonpeak_cts = Arr(s.cts),
                       !.sampled_nonpeak_coords = Arr(s.coords),
                       !.samplings = @ + 1,
                       !.seqs = Arr(c.seqs \o s.seqs),
                       !.cts = Arr(c.cts \o s.cts),
                       !.coords = Arr(c.coords \o s.coords)]
            : s \in subsample_nonpeak_data(self.nonpeak_seqs.rows, self.nonpeak_cts.rows, self.nonpeak_coords.rows, Len(self.peak_seqs.rows), self.negative_sampling_ratio)}
    ELSE {[self EXCEPT !.seqs = Arr(c.seqs \o self.nonpeak_seqs.rows),
                       !.cts = Arr(c.cts \o self.nonpeak_cts.rows),
                       !.coords = Arr(c.coords \o self.nonpeak_coords.rows)]}

\* lines 427-438: the negatives stacked under the cropped peaks c, a drawn
\* subset when the ratio is positive and the whole population otherwise
StackNegatives(self, c) ==
    IF RatioPositive(self.negative_sampling_ratio)
    THEN {[self EXCEPT !.sampled_nonpeak_seqs = Arr(s.seqs),
                       !.sampled_nonpeak_cts = Arr(s.cts),
                       !.sampled_nonpeak_coords = Arr(s.coords),
                       !.samplings = @ + 1,
                       !.seqs = Arr(c.seqs \o s.seqs),
                       !.cts = Arr(c.cts \o s.cts),
                       !.coords = Arr(c.coords \o s.coords)]
            : s \in subsample_nonpeak_data(self.nonpeak_seqs.rows, self.nonpeak_cts.rows, self.nonpeak_coords.rows, Len(self.peak_seqs.rows), self.negative_sampling_ratio)}
    ELSE {[self EXCEPT !.seqs = Arr(c.seqs \o self.nonpeak_seqs.rows),
                       !.cts = Arr(c.cts \o self.nonpeak_cts.rows),
                       !.coords = Arr(c.coords \o self.nonpeak_coords.rows)]}

\* lines 420-455: self.seqs, self.cts, self.coords from the source arrays
Stacked(self) ==
    IF ~self.peak_seqs.isNone /\ ~self.nonpeak_seqs.isNone
    THEN UNION {StackNegatives(self, c) : c \in CropPeaks(self)}
    ELSE IF ~self.peak_seqs.isNone
    THEN {[self EXCEPT !.seqs = Arr(c.seqs), !.cts = Arr(c.cts), !.coords = Arr(c.coords)]
            : c \in CropPeaks(self)}
    ELSE IF ~self.nonpeak_seqs.isNone
    THEN {[self EXCEPT !.seqs = self.nonpeak_seqs, !.cts = self.nonpeak_cts,
                       !.coords = self.nonpeak_coords]}
    ELSE {}

\* lines 458-461: the augmented arrays become the current ones
Augmented(self) ==
    {[self EXCEPT !.cur_seqs = Arr(a.seqs), !.cur_cts = Arr(a.cts),
                  !.cur_coords = Arr(a.coords), !.refreshes = @ + 1]
       : a \in crop_revcomp_augment(self.seqs.rows, self.cts.rows, self.coords.rows, self.add_revcomp, self.shuffle_at_epoch_start)}

\* ChromBPNetDataset.crop_revcomp_data: the set of its outcomes, each the
\* error raised ("" for none) and the object afterwards
crop_revcomp_data(self) ==
    IF self.peak_seqs.isNone /\ self.nonpeak_seqs.isNone
    THEN {[err |-> "ValueError", self |-> self]}
    ELSE {[err |-> "", self |-> a] : a \in UNION {Augmented(s) : s \in Stacked(self)}}

\* ChromBPNetDataset.__init__: load, store, materialize
ChromBPNetDataset_init(peak_regions, nonpeak_regions, max_jitter, negative_sampling_ratio, add_revcomp, shuffle_at_epoch_start) ==
    LET loaded == load_data(peak_regions, nonpeak_regions, max_jitter)
        stored == [NoDataset EXCEPT
                      !.peak_seqs = loaded.peak_seqs, !.peak_cts = loaded.peak_cts,
                      !.peak_coords = loaded.peak_coords,
                      !.nonpeak_seqs = loaded.nonpeak_seqs,
                      !.nonpeak_cts = loaded.nonpeak_cts,
                      !.nonpeak_coords = loaded.nonpeak_coords,
                      !.negative_sampling_ratio = negative_sampling_ratio,
                      !.add_revcomp = add_revcomp,
                      !.shuffle_at_epoch_start = shuffle_at_epoch_start]
    IN  {[o.self EXCEPT !.status = IF o.err = "" THEN "ok" ELSE o.err]
           : o \in crop_revcomp_data(stored)}

\* ChromBPNetDataset.__len__
__len__(self) == Len(self.cur_seqs.rows)

\* arr[idx].astype(np.float32), transposed for the sequence
Float32(row, transposed) == [row |-> row, dtype |-> "float32", transposed |-> transposed]

NoItem == Float32(Row("seq", FALSE, 0, 0), FALSE)

\* a mutant of __getitem__: an index past the end is clamped to the last row
__getitem__clamped(self, idx) ==
    LET n == Len(self.cur_seqs.rows)
        pos == IF idx >= n THEN n ELSE IF idx >= 0 THEN idx + 1 ELSE n + idx + 1
    IN  IF pos < 1 \/ pos > n
        THEN [err |-> "IndexError", onehot_seq |-> NoItem, profile |-> NoItem, self |-> self]
        ELSE [err |-> "",
              onehot_seq |-> Float32(self.cur_seqs.rows[pos], TRUE),
              profile |-> Float32(self.cur_cts.rows[pos], FALSE), self |-> self]

\* a mutant of __getitem__: the call refreshes the dataset before reading it
__getitem__refreshing(self, idx) ==
    LET fresh == (CHOOSE o \in crop_revcomp_data(self) : TRUE).self
        n == Len(fresh.cur_seqs.rows)
        pos == IF idx >= 0 THEN idx + 1 ELSE n + idx + 1
    IN  IF idx >= n \/ idx < 0 - n
        THEN [err |-> "IndexError", onehot_seq |-> NoItem, profile |-> NoItem, self |-> fresh]
        ELSE [err |-> "",
              onehot_seq |-> Float32(fresh.cur_seqs.rows[pos], TRUE),
              profile |-> Float32(fresh.cur_cts.rows[pos], FALSE), self |-> fresh]

\* ChromBPNetDataset.__getitem__: numpy indexing of the current arrays, an
\* index in -n..-1 counting from the end and any other outside 0..n-1 raising
__getitem__(self, idx) ==
    LET n == Len(self.cur_seqs.rows)
        pos == IF idx >= 0 THEN idx + 1 ELSE n + idx + 1
    IN  IF idx >= n \/ idx < 0 - n
        THEN [err |-> "IndexError", onehot_seq |-> NoItem, profile |-> NoItem, self |-> self]
        ELSE [err |-> "",
              onehot_seq |-> Float32(self.cur_seqs.rows[pos], TRUE),
              profile |-> Float32(self.cur_cts.rows[pos], FALSE), self |-> self]

\* ------------------------------------------------------------- idle values
NoConfig == [data_type |-> "", peaks |-> <<>>, negatives |-> <<>>, training_chroms |-> <<>>, validation_chroms |-> <<>>, test_chroms |-> <<>>, exclude_chroms |-> <<>>, negative_sampling_ratio |-> Ratio(0, 1), shift |-> 0]

NoDataModule == [status |-> "idle", data |-> <<>>, train_chroms |-> <<>>, val_chroms |-> <<>>, test_chroms |-> <<>>, chroms |-> <<>>, train_val |-> <<>>, train_data |-> <<>>, val_data |-> <<>>, test_data |-> <<>>]

NoTrainer == [pc |-> "idle", reload |-> FALSE, epoch |-> 0, train_loader |-> FALSE, val_loader |-> FALSE, test_loader |-> FALSE, iterating |-> "none", refreshes_before_epoch |-> 0, snap |-> NoDataset]

NoGot == [called |-> FALSE, worker |-> 0, loader |-> "", idx |-> 0, err |-> "", onehot_seq |-> NoItem, profile |-> NoItem]

NoArgs == [peak_regions |-> NoneRegions, nonpeak_regions |-> NoneRegions, max_jitter |-> 0, negative_sampling_ratio |-> Ratio(0, 1), add_revcomp |-> FALSE, shuffle_at_epoch_start |-> FALSE]

NoSampleIn == [nonpeak_seqs |-> <<>>, nonpeak_cts |-> <<>>, nonpeak_coords |-> <<>>, peak_data_size |-> 0, negative_sampling_ratio |-> Ratio(0, 1)]

NoSampleOut == [called |-> FALSE, err |-> "", keep |-> <<>>, seqs |-> <<>>, cts |-> <<>>, coords |-> <<>>]

\* n regions of one chromosome, numbered from first
MkRegions(chrom, is_peak, first, n) ==
    Regions([i \in 1..n |-> [chrom |-> chrom, id |-> first + i - 1, is_peak |-> is_peak]])

\* ------------------------------------------------------------- logger.py
\* the names create_logger is called with; '' is the default
LoggerNames == {"", "chrombpnet"}

\* the levelname values passed
Levels == {"INFO", "DEBUG"}

\* the fh values passed: a falsy one and a file path
FhValues == {"", "run.log"}

\* logging.getLogger(name) before any call: no level set, no handlers
NoLoggers == [n \in LoggerNames |-> [level |-> "NOTSET", handlers |-> <<>>]]

NoLogCall == [called |-> FALSE, calls |-> 0, created |-> 0, name |-> "", ch |-> FALSE, fh |-> "", overwrite |-> FALSE, before |-> <<>>, added |-> <<>>]

\* a handler object; id tells one object from another
Handler(kind, level, id) == [kind |-> kind, level |-> level, id |-> id]

\* logger.removeHandler(h): h is taken out of logger.handlers, the list
\* itself being changed, when it is in it
removeHandler(handlers, h) ==
    IF \E i \in 1..Len(handlers) : handlers[i] = h
    THEN LET i == CHOOSE i \in 1..Len(handlers) :
                     /\ handlers[i] = h
                     /\ \A j \in 1..(i - 1) : handlers[j] # h
         IN  SubSeq(handlers, 1, i - 1) \o SubSeq(handlers, i + 1, Len(handlers))
    ELSE handlers

\* lines 12-13: `for h in logger.handlers: logger.removeHandler(h)`.  The
\* loop reads the list by position while removeHandler shortens the same
\* list: after k turns the list is after[k].list and the next position read
\* is after[k].i; the loop ends when the position is past the end.
RemoveHandlersLoop(handlers) ==
    LET n == Len(handlers)
        after[k \in 0..n] ==
            IF k = 0
            THEN [list |-> handlers, i |-> 1]
            ELSE LET prev == after[k - 1]
                 IN  IF prev.i > Len(prev.list)
                     THEN prev
                     ELSE [list |-> removeHandler(prev.list, prev.list[prev.i]),
                           i |-> prev.i + 1]
    IN  after[n].list

\* lines 17-26: the handlers the call creates, numbered from first
NewHandlers(ch, fh, first) ==
    (IF ch THEN <<Handler("StreamHandler", "INFO", first)>> ELSE <<>>)
        \o (IF fh # ""
            THEN <<Handler("FileHandler", "DEBUG", first + (IF ch THEN 1 ELSE 0))>>
            ELSE <<>>)

\* create_logger(name, ch, fh, levelname, overwrite): the logger afterwards
create_logger(logger, ch, fh, levelname, overwrite, first) ==
    LET kept == IF overwrite THEN RemoveHandlersLoop(logger.handlers) ELSE logger.handlers
    IN  [level |-> levelname, handlers |-> kept \o NewHandlers(ch, fh, first)]

\* ------------------------------------------------------------- the logger alone
InitLogger ==
    /\ loggers = NoLoggers /\ log_call = NoLogCall
    /\ config = NoConfig /\ dm = NoDataModule /\ trainer = NoTrainer /\ got = NoGot
    /\ train_dataset = NoDataset /\ val_dataset = NoDataset /\ test_dataset = NoDataset
    /\ ds_args = NoArgs /\ ds = NoDataset /\ ds_got = NoGot
    /\ ss_in = NoSampleIn /\ ss_out = NoSampleOut

\* one create_logger call
CreateLogger ==
    /\ log_call.calls < MaxCalls
    /\ \E name \in LoggerNames, ch \in BOOLEAN, fh \in FhValues, levelname \in Levels, overwrite \in BOOLEAN :
          LET added == NewHandlers(ch, fh, log_call.created + 1)
          IN  /\ loggers' = [loggers EXCEPT ![name] = create_logger(@, ch, fh, levelname, overwrite, log_call.created + 1)]
              /\ log_call' = [called |-> TRUE, calls |-> log_call.calls + 1,
                              created |-> log_call.created + Len(added),
                              name |-> name, ch |-> ch, fh |-> fh, overwrite |-> overwrite,
                              before |-> loggers[name].handlers, added |-> added]
    /\ UNCHANGED <<config, dm, train_dataset, val_dataset, test_dataset, trainer, got, ds_args, ds, ds_got, ss_in, ss_out>>

NextLogger == CreateLogger

SpecLogger == InitLogger /\ [][NextLogger]_vars

\* ------------------------------------------------------------- the sampler alone
InitSample ==
    /\ loggers = NoLoggers /\ log_call = NoLogCall
    /\ config = NoConfig /\ dm = NoDataModule /\ trainer = NoTrainer /\ got = NoGot
    /\ train_dataset = NoDataset /\ val_dataset = NoDataset /\ test_dataset = NoDataset
    /\ ds_args = NoArgs /\ ds = NoDataset /\ ds_got = NoGot
    /\ \E n \in 0..(MaxNonpeaks + 1), p \in 0..(MaxPeaks + 1), r \in Ratios :
          ss_in = [nonpeak_seqs |-> RowsOf("seq", FALSE, MkRegions("chr1", FALSE, 1, n), 0).rows,
                   nonpeak_cts |-> RowsOf("cts", FALSE, MkRegions("chr1", FALSE, 1, n), 0).rows,
                   nonpeak_coords |-> RowsOf("coord", FALSE, MkRegions("chr1", FALSE, 1, n), 0).rows,
                   peak_data_size |-> p, negative_sampling_ratio |-> r]
    /\ ss_out = NoSampleOut

\* one call of subsample_nonpeak_data on the drawn arguments
Subsample ==
    /\ ~ss_out.called
    /\ \E o \in subsample_nonpeak_data(ss_in.nonpeak_seqs, ss_in.nonpeak_cts, ss_in.nonpeak_coords, ss_in.peak_data_size, ss_in.negative_sampling_ratio) :
          ss_out' = [called |-> TRUE, err |-> o.err, keep |-> o.keep, seqs |-> o.seqs, cts |-> o.cts, coords |-> o.coords]
    /\ UNCHANGED <<loggers, log_call, config, dm, train_dataset, val_dataset, test_dataset, trainer, got, ds_args, ds, ds_got, ss_in>>

NextSample == Subsample

SpecSample == InitSample /\ [][NextSample]_vars

\* ------------------------------------------------------------- one dataset alone
Jitters == {0, 1}

InitDataset ==
    /\ loggers = NoLoggers /\ log_call = NoLogCall
    /\ config = NoConfig /\ dm = NoDataModule /\ trainer = NoTrainer /\ got = NoGot
    /\ train_dataset = NoDataset /\ val_dataset = NoDataset /\ test_dataset = NoDataset
    /\ ss_in = NoSampleIn /\ ss_out = NoSampleOut
    /\ \E pk \in {NoneRegions} \cup {MkRegions("chr1", TRUE, 1, n) : n \in 0..MaxPeaks},
          np \in {NoneRegions} \cup {MkRegions("chr1", FALSE, 1, n) : n \in 0..MaxNonpeaks},
          j \in Jitters, r \in Ratios, rc \in BOOLEAN :
          ds_args = [peak_regions |-> pk, nonpeak_regions |-> np, max_jitter |-> j,
                     negative_sampling_ratio |-> r, add_revcomp |-> rc,
                     shuffle_at_epoch_start |-> FALSE]
    /\ ds = NoDataset
    /\ ds_got = NoGot

\* ChromBPNetDataset(...) on the drawn arguments
DsConstruct ==
    /\ ds.status = "unset"
    /\ ds' \in ChromBPNetDataset_init(ds_args.peak_regions, ds_args.nonpeak_regions, ds_args.max_jitter, ds_args.negative_sampling_ratio, ds_args.add_revcomp, ds_args.shuffle_at_epoch_start)
    /\ UNCHANGED <<loggers, log_call, config, dm, train_dataset, val_dataset, test_dataset, trainer, got, ds_args, ds_got, ss_in, ss_out>>

\* ds.crop_revcomp_data()
DsRefresh ==
    /\ ds.status = "ok"
    /\ ds.refreshes < MaxRefreshes
    /\ \E o \in crop_revcomp_data(ds) : ds' = o.self
    /\ ds_got' = NoGot
    /\ UNCHANGED <<loggers, log_call, config, dm, train_dataset, val_dataset, test_dataset, trainer, got, ds_args, ss_in, ss_out>>

\* ds[idx], for the index -1, every valid index and the two past the end
DsGet ==
    /\ ds.status = "ok"
    /\ \E idx \in (0 - 1)..(__len__(ds) + 1) :
          LET res == __getitem__(ds, idx)
          IN  /\ ds' = res.self
              /\ ds_got' = [called |-> TRUE, worker |-> 0, loader |-> "", idx |-> idx, err |-> res.err, onehot_seq |-> res.onehot_seq, profile |-> res.profile]
    /\ UNCHANGED <<loggers, log_call, config, dm, train_dataset, val_dataset, test_dataset, trainer, got, ds_args, ss_in, ss_out>>

NextDataset == DsConstruct \/ DsRefresh \/ DsGet

SpecDataset == InitDataset /\ [][NextDataset]_vars

\* ------------------------------------------------------------- DataModule
Chroms == {"chr1", "chr2", "chr3"}

\* the lists of at most n chromosomes, repetitions and any order allowed
ChromLists(n) == UNION {[1..k -> Chroms] : k \in 0..n}

\* [i for i in chroms if i not in exclude_chroms]
NotExcluded(chroms, exclude_chroms) ==
    LET Keep(c) == c \notin Range(exclude_chroms)
    IN  SelectSeq(chroms, Keep)

\* data[data.iloc[:, 0].isin(chroms)].reset_index(drop=True)
IsIn(data, chroms) ==
    LET Keep(r) == r.chrom \in Range(chroms)
    IN  SelectSeq(data, Keep)

\* DataModule._load_regions: the peaks followed by the negatives
load_regions(self, cfg) == [self EXCEPT !.data = cfg.peaks \o cfg.negatives]

\* DataModule._setup_chromosomes
setup_chromosomes(self, cfg) ==
    LET train_chroms == NotExcluded(cfg.training_chroms, cfg.exclude_chroms)
        val_chroms == NotExcluded(cfg.validation_chroms, cfg.exclude_chroms)
        test_chroms == NotExcluded(cfg.test_chroms, cfg.exclude_chroms)
    IN  [self EXCEPT !.train_chroms = train_chroms, !.val_chroms = val_chroms,
                     !.test_chroms = test_chroms,
                     !.chroms = train_chroms \o val_chroms \o test_chroms]

\* DataModule._split_data (the background branch needs data_type 'longrange',
\* which __init__ rejects)
split_data(self) ==
    [self EXCEPT !.train_val = IsIn(self.data, self.val_chroms \o self.train_chroms),
                 !.train_data = IsIn(self.data, self.train_chroms),
                 !.val_data = IsIn(self.data, self.val_chroms),
                 !.test_data = IsIn(self.data, self.test_chroms)]

\* DataModule.__init__: the object afterwards, status "constructed", or
\* "ValueError" for a data type other than 'profile'
DataModule_init(self, cfg) ==
    IF cfg.data_type # "profile"
    THEN [self EXCEPT !.status = "ValueError"]
    ELSE [split_data(setup_chromosomes(load_regions(self, cfg), cfg)) EXCEPT !.status = "constructed"]

\* split_peak_and_nonpeak: two frames, either possibly empty, never None
split_peak_and_nonpeak(data) ==
    LET IsPeak(r) == r.is_peak
        NotPeak(r) == ~r.is_peak
    IN  [peaks |-> Regions(SelectSeq(data, IsPeak)), non_peaks |-> Regions(SelectSeq(data, NotPeak))]

\* p peaks and n negatives on every chromosome, as the two region files give them
Catalog(p, n) ==
    [peaks |-> MkRegions("chr1", TRUE, 1, p).rows \o MkRegions("chr2", TRUE, p + 1, p).rows \o MkRegions("chr3", TRUE, 2 * p + 1, p).rows,
     negatives |-> MkRegions("chr1", FALSE, 1, n).rows \o MkRegions("chr2", FALSE, n + 1, n).rows \o MkRegions("chr3", FALSE, 2 * n + 1, n).rows]

NewDataModule == [NoDataModule EXCEPT !.status = "new"]

\* DataModule(config)
Construct ==
    /\ dm.status = "new"
    /\ dm' = DataModule_init(dm, config)
    /\ UNCHANGED <<loggers, log_call, config, train_dataset, val_dataset, test_dataset, trainer, got, ds_args, ds, ds_got, ss_in, ss_out>>

\* ------------------------------------------------------------- the split alone
MaxChromList == 2

InitSplit ==
    /\ loggers = NoLoggers /\ log_call = NoLogCall
    /\ trainer = NoTrainer /\ got = NoGot
    /\ train_dataset = NoDataset /\ val_dataset = NoDataset /\ test_dataset = NoDataset
    /\ ds_args = NoArgs /\ ds = NoDataset /\ ds_got = NoGot
    /\ ss_in = NoSampleIn /\ ss_out = NoSampleOut
    /\ \E tr \in ChromLists(MaxChromList), va \in ChromLists(MaxChromList), te \in ChromLists(MaxChromList), ex \in ChromLists(1), dt \in {"profile", "longrange"} :
          config = [NoConfig EXCEPT !.data_type = dt, !.peaks = Catalog(1, 1).peaks,
                                    !.negatives = Catalog(1, 1).negatives,
                                    !.training_chroms = tr, !.validation_chroms = va,
                                    !.test_chroms = te, !.exclude_chroms = ex]
    /\ dm = NewDataModule

NextSplit == Construct

SpecSplit == InitSplit /\ [][NextSplit]_vars

\* ------------------------------------------------------------- DataModule.setup
\* setup('fit'): the pairs of train and validation datasets it can build
setup_fit(self, cfg) ==
    LET train == split_peak_and_nonpeak(self.train_data)
        val == split_peak_and_nonpeak(self.val_data)
    IN  [train_dataset : ChromBPNetDataset_init(train.peaks, train.non_peaks, cfg.shift, cfg.negative_sampling_ratio, TRUE, FALSE),
         val_dataset : ChromBPNetDataset_init(val.peaks, val.non_peaks, 0, cfg.negative_sampling_ratio, FALSE, FALSE)]

\* setup('test'): the test datasets it can build
setup_test(self, cfg) ==
    LET test == split_peak_and_nonpeak(self.test_data)
    IN  ChromBPNetDataset_init(test.peaks, test.non_peaks, 0, Ratio(0 - 1, 1), FALSE, FALSE)

\* DataModule.train_dataloader: the training dataset is refreshed, then wrapped
train_dataloader(self_train_dataset) == crop_revcomp_data(self_train_dataset)

\* a mutant of val_dataloader: the validation dataset is refreshed like the training one
val_dataloader_refreshes(self_val_dataset) == crop_revcomp_data(self_val_dataset)

\* DataModule.val_dataloader: the validation dataset is wrapped as it is
val_dataloader(self_val_dataset) == {[err |-> "", self |-> self_val_dataset]}

\* DataModule.test_dataloader: the test dataset is wrapped as it is
test_dataloader(self_test_dataset) == {[err |-> "", self |-> self_test_dataset]}

\* ------------------------------------------------------------- a training run
\* The trainer builds the DataModule, runs the fit stage (setup('fit'), a
\* loader per split, MaxEpochs epochs of training batches with validation
\* passes in between) and then the test stage.  A loader is asked for when
\* there is none; with trainer.reload the loaders are dropped at the end of
\* every epoch (reload_dataloaders_every_n_epochs = 1), otherwise the loader
\* returned once is iterated again.
Workers == 1..NumWorkers

\* the catalog of the training runs: one peak and two negatives on every
\* chromosome (SpecDataset varies the sizes of a dataset)
TrainingCatalog == Catalog(1, 2)

Init ==
    /\ loggers = NoLoggers /\ log_call = NoLogCall
    /\ ds_args = NoArgs /\ ds = NoDataset /\ ds_got = NoGot
    /\ ss_in = NoSampleIn /\ ss_out = NoSampleOut
    /\ \E r \in Ratios, j \in Jitters :
          config = [NoConfig EXCEPT !.data_type = "profile",
                                    !.peaks = TrainingCatalog.peaks,
                                    !.negatives = TrainingCatalog.negatives,
                                    !.training_chroms = <<"chr1">>,
                                    !.validation_chroms = <<"chr2">>,
                                    !.test_chroms = <<"chr3">>,
                                    !.negative_sampling_ratio = r, !.shift = j]
    /\ dm = NewDataModule
    /\ train_dataset = NoDataset /\ val_dataset = NoDataset /\ test_dataset = NoDataset
    /\ \E rl \in BOOLEAN : trainer = [NoTrainer EXCEPT !.pc = "new", !.reload = rl]
    /\ got = NoGot

\* trainer.fit(): datamodule.setup('fit')
SetupFit ==
    /\ dm.status = "constructed" /\ trainer.pc = "new"
    /\ \E b \in setup_fit(dm, config) :
          /\ train_dataset' = b.train_dataset
          /\ val_dataset' = b.val_dataset
    /\ trainer' = [trainer EXCEPT !.pc = "fit"]
    /\ UNCHANGED <<loggers, log_call, config, dm, test_dataset, got, ds_args, ds, ds_got, ss_in, ss_out>>

\* the fit loop asks for the training loader
TrainDataloader ==
    /\ trainer.pc = "fit" /\ trainer.iterating = "none"
    /\ ~trainer.train_loader /\ trainer.epoch < MaxEpochs
    /\ \E o \in train_dataloader(train_dataset) : train_dataset' = o.self
    /\ trainer' = [trainer EXCEPT !.train_loader = TRUE]
    /\ UNCHANGED <<loggers, log_call, config, dm, val_dataset, test_dataset, got, ds_args, ds, ds_got, ss_in, ss_out>>

\* the fit loop asks for the validation loader
ValDataloader ==
    /\ trainer.pc = "fit" /\ trainer.iterating = "none"
    /\ ~trainer.val_loader
    /\ \E o \in val_dataloader(val_dataset) : val_dataset' = o.self
    /\ trainer' = [trainer EXCEPT !.val_loader = TRUE]
    /\ UNCHANGED <<loggers, log_call, config, dm, train_dataset, test_dataset, got, ds_args, ds, ds_got, ss_in, ss_out>>

\* the fit stage ends after the last epoch
FitDone ==
    /\ trainer.pc = "fit" /\ trainer.iterating = "none"
    /\ trainer.epoch = MaxEpochs
    /\ trainer' = [trainer EXCEPT !.pc = "fitted"]
    /\ UNCHANGED <<loggers, log_call, config, dm, train_dataset, val_dataset, test_dataset, got, ds_args, ds, ds_got, ss_in, ss_out>>

\* trainer.test(): datamodule.setup('test')
SetupTest ==
    /\ trainer.pc = "fitted"
    /\ test_dataset' \in setup_test(dm, config)
    /\ trainer' = [trainer EXCEPT !.pc = "test"]
    /\ UNCHANGED <<loggers, log_call, config, dm, train_dataset, val_dataset, got, ds_args, ds, ds_got, ss_in, ss_out>>

\* the test loop asks for the test loader
TestDataloader ==
    /\ trainer.pc = "test" /\ trainer.iterating = "none"
    /\ ~trainer.test_loader
    /\ \E o \in test_dataloader(test_dataset) : test_dataset' = o.self
    /\ trainer' = [trainer EXCEPT !.test_loader = TRUE]
    /\ UNCHANGED <<loggers, log_call, config, dm, train_dataset, val_dataset, got, ds_args, ds, ds_got, ss_in, ss_out>>

\* the dataset behind a loader
DatasetOf(loader) ==
    IF loader = "train" THEN train_dataset ELSE IF loader = "val" THEN val_dataset ELSE test_dataset

\* iter(loader): the workers start on the dataset as it is now
StartIter ==
    /\ trainer.iterating = "none"
    /\ \E l \in {"train", "val", "test"} :
          /\ l = "train" => trainer.pc = "fit" /\ trainer.train_loader /\ trainer.epoch < MaxEpochs
          /\ l = "val" => trainer.pc = "fit" /\ trainer.val_loader
          /\ l = "test" => trainer.pc = "test" /\ trainer.test_loader
          /\ trainer' = [trainer EXCEPT !.iterating = l, !.snap = DatasetOf(l)]
    /\ got' = NoGot
    /\ UNCHANGED <<loggers, log_call, config, dm, train_dataset, val_dataset, test_dataset, ds_args, ds, ds_got, ss_in, ss_out>>

\* a worker fetches dataset[idx] for an index its sampler hands out
WorkerGet ==
    /\ trainer.iterating # "none"
    /\ \E w \in Workers, idx \in 0..(__len__(DatasetOf(trainer.iterating)) - 1) :
          LET res == __getitem__(DatasetOf(trainer.iterating), idx)
          IN  /\ got' = [called |-> TRUE, worker |-> w, loader |-> trainer.iterating, idx |-> idx, err |-> res.err, onehot_seq |-> res.onehot_seq, profile |-> res.profile]
              /\ train_dataset' = IF trainer.iterating = "train" THEN res.self ELSE train_dataset
              /\ val_dataset' = IF trainer.iterating = "val" THEN res.self ELSE val_dataset
              /\ test_dataset' = IF trainer.iterating = "test" THEN res.self ELSE test_dataset
    /\ UNCHANGED <<loggers, log_call, config, dm, trainer, ds_args, ds, ds_got, ss_in, ss_out>>

\* the loader is exhausted; a training pass ends the epoch
EndIter ==
    /\ trainer.iterating # "none"
    /\ trainer' =
          IF trainer.iterating = "train"
          THEN [trainer EXCEPT !.iterating = "none", !.snap = NoDataset,
                               !.epoch = @ + 1,
                               !.refreshes_before_epoch = train_dataset.refreshes,
                               !.train_loader = IF trainer.reload THEN FALSE ELSE @,
                               !.val_loader = IF trainer.reload THEN FALSE ELSE @]
          ELSE [trainer EXCEPT !.iterating = "none", !.snap = NoDataset]
    /\ got' = NoGot
    /\ UNCHANGED <<loggers, log_call, config, dm, train_dataset, val_dataset, test_dataset, ds_args, ds, ds_got, ss_in, ss_out>>

Next ==
    \/ Construct
    \/ SetupFit
    \/ TrainDataloader
    \/ ValDataloader
    \/ StartIter
    \/ WorkerGet
    \/ EndIter
    \/ FitDone
    \/ SetupTest
    \/ TestDataloader

Spec == Init /\ [][Next]_vars

\* ============================================================= claims
\* floor(r * p) for a ratio r > 0
FloorRatio(r, p) == (r.num * p) \div r.den

\* the numbers of peak and non-peak examples a dataset was built from
BuiltPeaks == Len(ds_args.peak_regions.rows)

BuiltNonpeaks == Len(ds_args.nonpeak_regions.rows)

\* row i of the three arrays belongs to one example
SameExample(seqs, cts, coords, i) ==
    /\ seqs[i].part = "seq" /\ cts[i].part = "cts" /\ coords[i].part = "coord"
    /\ [seqs[i] EXCEPT !.part = ""] = [cts[i] EXCEPT !.part = ""]
    /\ [seqs[i] EXCEPT !.part = ""] = [coords[i] EXCEPT !.part = ""]

\* ------------------------------------------------------------- C3
\* C3: for a ratio r > 0, subsample_nonpeak_data returns exactly
\* min(floor(r * P), N) examples, drawn by pairwise distinct indices into the
\* population, and the sequence, count and coordinate rows at every position
\* of the result are those of one and the same drawn example.
C3_SampleSizeDistinctAligned ==
    (ss_out.called /\ ss_in.negative_sampling_ratio.num > 0) =>
        LET n == Len(ss_in.nonpeak_seqs)
            k == Min(FloorRatio(ss_in.negative_sampling_ratio, ss_in.peak_data_size), n)
        IN  /\ ss_out.err = ""
            /\ Len(ss_out.seqs) = k /\ Len(ss_out.cts) = k /\ Len(ss_out.coords) = k
            /\ Len(ss_out.keep) = k
            /\ \A i \in 1..k : ss_out.keep[i] \in 1..n
            /\ \A i, j \in 1..k : i # j => ss_out.keep[i] # ss_out.keep[j]
            /\ \A i, j \in 1..k : i # j => ss_out.seqs[i].id # ss_out.seqs[j].id
            /\ \A i \in 1..k :
                  /\ ss_out.seqs[i] = ss_in.nonpeak_seqs[ss_out.keep[i]]
                  /\ ss_out.cts[i] = ss_in.nonpeak_cts[ss_out.keep[i]]
                  /\ ss_out.coords[i] = ss_in.nonpeak_coords[ss_out.keep[i]]
                  /\ SameExample(ss_out.seqs, ss_out.cts, ss_out.coords, i)

\* two of three negatives drawn, the later one first
C3_Witness ==
    /\ ss_out.called /\ ss_in.negative_sampling_ratio.num > 0
    /\ Len(ss_in.nonpeak_seqs) = 3 /\ ss_out.keep = <<3, 1>>

\* ------------------------------------------------------------- C2
\* the source arrays are what load_data gave the constructor
SourcesUnchanged ==
    LET loaded == load_data(ds_args.peak_regions, ds_args.nonpeak_regions, ds_args.max_jitter)
    IN  /\ ds.peak_seqs = loaded.peak_seqs /\ ds.peak_cts = loaded.peak_cts
        /\ ds.peak_coords = loaded.peak_coords
        /\ ds.nonpeak_seqs = loaded.nonpeak_seqs /\ ds.nonpeak_cts = loaded.nonpeak_cts
        /\ ds.nonpeak_coords = loaded.nonpeak_coords

\* every materialized row is a source row cropped once: the peaks in source
\* order, then negatives of the source population, no example twice
FromSourcesAlone ==
    LET p == Len(ds.peak_seqs.rows)
        m == Len(ds.seqs.rows)
    IN  /\ Len(ds.cts.rows) = m /\ Len(ds.coords.rows) = m
        /\ p <= m
        /\ \A i \in 1..m : SameExample(ds.seqs.rows, ds.cts.rows, ds.coords.rows, i)
        /\ \A i \in 1..p :
              \E o \in 0..(2 * ds_args.max_jitter) :
                  ds.seqs.rows[i] = CropRow(ds.peak_seqs.rows[i], o)
        /\ \A i \in (p + 1)..m : ds.seqs.rows[i] \in Range(ds.nonpeak_seqs.rows)
        /\ \A i, j \in (p + 1)..m : i # j => ds.seqs.rows[i] # ds.seqs.rows[j]

\* C2 as stated: after any number of refreshes the source arrays are
\* unchanged and, for a ratio r > 0, the set materialized before augmentation
\* holds exactly P + min(floor(r * P), N) examples.
C2_Original ==
    ds.status = "ok" =>
        /\ SourcesUnchanged
        /\ ds.negative_sampling_ratio.num > 0 =>
              Len(ds.seqs.rows) = BuiltPeaks + Min(FloorRatio(ds.negative_sampling_ratio, BuiltPeaks), BuiltNonpeaks)

\* C2 as amended: after any number of refreshes the source arrays are
\* unchanged and the set materialized before augmentation is made of source
\* rows alone; for a ratio r > 0 it holds exactly P + min(floor(r * P), N)
\* examples when the peak arrays are present, and all N non-peak examples
\* when the dataset was built without peak arrays.
C2_NoDriftAcrossRefreshes ==
    ds.status = "ok" =>
        /\ SourcesUnchanged
        /\ FromSourcesAlone
        /\ (ds.negative_sampling_ratio.num > 0 /\ ~ds_args.peak_regions.isNone) =>
              Len(ds.seqs.rows) = BuiltPeaks + Min(FloorRatio(ds.negative_sampling_ratio, BuiltPeaks), BuiltNonpeaks)
        /\ (ds.negative_sampling_ratio.num > 0 /\ ds_args.peak_regions.isNone) =>
              Len(ds.seqs.rows) = BuiltNonpeaks

\* a second refresh has drawn one of two negatives under one peak
C2_Witness ==
    /\ ds.status = "ok" /\ ds.refreshes >= 2
    /\ ds.negative_sampling_ratio.num > 0
    /\ BuiltPeaks = 1 /\ BuiltNonpeaks = 2 /\ Len(ds.seqs.rows) = 2

\* ------------------------------------------------------------- C4
\* C4: with a ratio <= 0 a refresh samples nothing: the materialized set is
\* the cropped peaks in order followed by the whole non-peak population, each
\* example once and in its original order (and, with augmentation off, that
\* is the current set too).
C4_NoSamplingKeepsAllNegatives ==
    (ds.status = "ok" /\ ds.negative_sampling_ratio.num <= 0) =>
        LET p == Len(ds.peak_seqs.rows)
            n == Len(ds.nonpeak_seqs.rows)
        IN  /\ ds.samplings = 0
            /\ Len(ds.seqs.rows) = p + n
            /\ FromSourcesAlone
            /\ SubSeq(ds.seqs.rows, p + 1, p + n) = ds.nonpeak_seqs.rows
            /\ SubSeq(ds.cts.rows, p + 1, p + n) = ds.nonpeak_cts.rows
            /\ SubSeq(ds.coords.rows, p + 1, p + n) = ds.nonpeak_coords.rows
            /\ ~ds.add_revcomp =>
                  /\ ds.cur_seqs = ds.seqs /\ ds.cur_cts = ds.cts /\ ds.cur_coords = ds.coords

\* the test-stage parameters on one peak and two negatives, refreshed
C4_Witness ==
    /\ ds.status = "ok" /\ ds.refreshes >= 1
    /\ ds.negative_sampling_ratio = Ratio(0 - 1, 1) /\ ~ds.add_revcomp
    /\ BuiltPeaks = 1 /\ BuiltNonpeaks = 2 /\ Len(ds.cur_seqs.rows) = 3

C6_GetLeavesDatasetUnchanged ==
    [][ds_got'.called =>
          /\ ds' = ds
          /\ (ds_got'.idx >= 0 /\ ds_got'.idx < __len__(ds)) =>
                /\ ds_got'.err = ""
                /\ ds_got'.onehot_seq = Float32(ds.cur_seqs.rows[ds_got'.idx + 1], TRUE)
                /\ ds_got'.profile = Float32(ds.cur_cts.rows[ds_got'.idx + 1], FALSE)
          /\ ds_got'.idx >= __len__(ds) => ds_got'.err = "IndexError"]_vars

\* a get() has returned the second example of a once-refreshed dataset
C6_Witness ==
    /\ ds.status = "ok" /\ ds_got.called /\ ds_got.err = ""
    /\ ds_got.idx = 1 /\ ds.refreshes = 1 /\ ds.add_revcomp

\* ------------------------------------------------------------- C1
\* C1: while the workers fetch the examples of a training epoch, refresh()
\* has run exactly once on the training dataset since the previous epoch
\* ended (since the start, for the first epoch) and not since the workers
\* started.
C1_RefreshOncePerEpoch ==
    trainer.iterating = "train" =>
        /\ train_dataset.refreshes - trainer.refreshes_before_epoch = 1
        /\ train_dataset = trainer.snap

\* ------------------------------------------------------------- C8
\* C8: negative sampling runs at most once on the validation dataset and
\* never on the test dataset; once built, neither dataset is changed by any
\* step of the run (loader requests, passes over the loaders, epochs), while
\* every train_dataloader() call refreshes the training dataset and, the
\* ratio being positive, draws its negatives again.
C8_ValTestFixedTrainRedrawn ==
    /\ [](/\ val_dataset.samplings <= 1 /\ val_dataset.refreshes <= 1
          /\ test_dataset.samplings = 0 /\ test_dataset.refreshes <= 1)
    /\ [][/\ val_dataset.status = "ok" => val_dataset' = val_dataset
          /\ test_dataset.status = "ok" => test_dataset' = test_dataset
          /\ (~trainer.train_loader /\ trainer'.train_loader) =>
                /\ train_dataset'.refreshes = train_dataset.refreshes + 1
                /\ config.negative_sampling_ratio.num > 0 =>
                      train_dataset'.samplings = train_dataset.samplings + 1]_vars

\* the test loader exists after a run that asked for the loaders every epoch:
\* one validation draw, one training draw per train_dataloader() call
C8_Witness ==
    /\ trainer.reload /\ trainer.pc = "test" /\ trainer.test_loader
    /\ val_dataset.samplings = 1 /\ test_dataset.status = "ok"
    /\ train_dataset.samplings = 1 + trainer.epoch /\ trainer.epoch >= 2

\* ------------------------------------------------------------- C9
\* the number of the three outputs holding region r
OutputsHolding(r) ==
    Cardinality({o \in {"train", "val", "test"} :
        r \in Range(IF o = "train" THEN dm.train_data ELSE IF o = "val" THEN dm.val_data ELSE dm.test_data)})

ChromsOf(data) == {data[i].chrom : i \in DOMAIN data}

\* the chromosomes the configuration assigns to a split
Configured ==
    Range(config.training_chroms) \cup Range(config.validation_chroms) \cup Range(config.test_chroms)

\* C9: after the split every region on an excluded chromosome is in none of
\* train_data, val_data, test_data, every other region is in at most one of
\* them and in exactly one when the configuration assigns its chromosome to
\* a split, and the chromosome sets of the three outputs are pairwise
\* disjoint.  (A region on a chromosome that no list names is in no output.)
C9_SplitIsPartition ==
    dm.status = "constructed" =>
        /\ \A i \in DOMAIN dm.data :
              IF dm.data[i].chrom \in Range(config.exclude_chroms)
              THEN OutputsHolding(dm.data[i]) = 0
              ELSE /\ OutputsHolding(dm.data[i]) <= 1
                   /\ dm.data[i].chrom \in Configured => OutputsHolding(dm.data[i]) = 1
        /\ ChromsOf(dm.train_data) \cap ChromsOf(dm.val_data) = {}
        /\ ChromsOf(dm.train_data) \cap ChromsOf(dm.test_data) = {}
        /\ ChromsOf(dm.val_data) \cap ChromsOf(dm.test_data) = {}

\* ------------------------------------------------------------- C10
\* the configured lists share a chromosome after the exclusion
ListsOverlap ==
    LET tr == Range(config.training_chroms) \ Range(config.exclude_chroms)
        va == Range(config.validation_chroms) \ Range(config.exclude_chroms)
        te == Range(config.test_chroms) \ Range(config.exclude_chroms)
    IN  tr \cap va # {} \/ tr \cap te # {} \/ va \cap te # {}

\* C10: when the configured lists overlap after the exclusion, constructing
\* the DataModule ends in an error and leaves no split.
C10_OverlapIsRejected ==
    (dm.status # "new" /\ ListsOverlap) =>
        /\ dm.status # "constructed"
        /\ dm.train_data = <<>> /\ dm.val_data = <<>> /\ dm.test_data = <<>>


\* ------------------------------------------------------------- C11
\* a region set that is given and holds at least one region
NonEmptySet(regions) == ~regions.isNone /\ Len(regions.rows) > 0

\* C11: the constructor returns a dataset exactly when the peak set or the
\* non-peak set is non-empty; with both absent or empty it raises, and a
\* constructed dataset never holds zero examples.
C11_EmptyConstructionFails ==
    ds.status # "unset" =>
        /\ ds.status = "ok" <=>
              (NonEmptySet(ds_args.peak_regions) \/ NonEmptySet(ds_args.nonpeak_regions))
        /\ ds.status = "ok" => __len__(ds) > 0


\* ------------------------------------------------------------- C12
\* C12: after create_logger(name, overwrite=True) has returned, the named
\* logger holds exactly the handlers that call added (a stream handler when
\* ch is set, then a file handler when fh is set) and none of the handlers
\* it held before the call.
C12_OverwriteLeavesOnlyNewHandlers ==
    (log_call.called /\ log_call.overwrite) =>
        /\ loggers[log_call.name].handlers = log_call.added
        /\ Range(loggers[log_call.name].handlers) \cap Range(log_call.before) = {}
        /\ Len(log_call.added) = (IF log_call.ch THEN 1 ELSE 0) + (IF log_call.fh # "" THEN 1 ELSE 0)

====
